---- MODULE Spec2Model ----
(***************************************************************************)
(* hamming-heap: the bucket min-queue HammingHeap128 (src/src/heap.rs) and *)
(* the bounded top-k structure FixedHammingHeap (src/src/fixed_heap.rs).   *)
(*                                                                         *)
(* A bucket array is a sequence of sequences: bucket d (a Vec<T>) is       *)
(* element d + 1 of the array, and the last element of a bucket is the top *)
(* of the Vec (Vec::push appends, Vec::pop removes the last).              *)
(* Items are the naturals 1, 2, ...: the n-th push since the last reset    *)
(* carries item n. While `pure` holds, pushed[n] is the distance item n    *)
(* was pushed at; the list is dropped once `pure` is lost.                 *)
(***************************************************************************)
EXTENDS Integers, Sequences, FiniteSets, TLC

\* ------------------------------------------------------------- bounds
\* Number of buckets of the min-queue (129 in heap.rs, scaled down).
HeapDistances == 3
\* Largest argument given to set_distances.
MaxDistances == 3
\* Largest argument given to set_capacity.
MaxCap == 2
\* Pushes between two resets (clear, set_distances) of a structure.
MaxPush == 3
\* Longest buffer handed to fill_slice: one slot more than any heap holds.
MaxBuf == MaxCap + 1

\* u32 arithmetic wraps modulo this in a build without overflow checks. The
\* modulus of the source is 2^32; TLC's integers are 32 bits wide themselves,
\* so the model wraps at 2^16, far above every bucket index of the model.
U32 == 65536

VARIABLES
    component,   \* which structure this behaviour exercises
    hdistances,  \* HammingHeap128.distances
    best,        \* HammingHeap128.best
    cap,         \* FixedHammingHeap.cap
    size,        \* FixedHammingHeap.size
    worst,       \* FixedHammingHeap.worst
    distances,   \* FixedHammingHeap.distances
    op,          \* the last call
    arg,         \* its numeric argument (distance, cap, len, ...)
    outcome,     \* "ok" (it returned) or "panic"
    accepted,    \* the bool returned by the last push
    popret,      \* the Option the last call returned, <<>> for None:
                 \* <<d, item>> from pop, <<d>> from best()
    filled,      \* the items the last call handed out in order: the prefix
                 \* fill_slice returned, the pairs an iterator yielded
    dropped,     \* how many held items the last call took out of the structure
    count,       \* number of pushes since the last reset
    pushed,      \* their distances, in order, for as long as `pure` holds
    popped,      \* the <<d, item>> pairs popped since the last reset, in order
    pure         \* min-queue: no push since the first pop after the reset;
                 \* top-k: nothing but pushes since the capacity was set

heapVars == <<hdistances, best>>
fixedVars == <<cap, size, worst, distances>>
callVars == <<op, arg, outcome, accepted, popret, filled, dropped>>
histVars == <<count, pushed, popped, pure>>
vars == <<component, hdistances, best, cap, size, worst, distances,
          op, arg, outcome, accepted, popret, filled, dropped,
          count, pushed, popped, pure>>

\* ------------------------------------------------------------- helpers
Min(a, b) == IF a < b THEN a ELSE b

\* n empty buckets: vec![] n times.
EmptyBuckets(n) == [i \in 1..n |-> <<>>]

\* Vec::pop's effect on the Vec: the last element goes, an empty Vec stays.
VecPop(v) == IF v = <<>> THEN v ELSE SubSeq(v, 1, Len(v) - 1)

\* All buckets of ds with index in lo..hi (distances), concatenated in order.
RECURSIVE Flatten(_, _, _)
Flatten(ds, lo, hi) ==
    IF lo > hi THEN <<>> ELSE ds[lo + 1] \o Flatten(ds, lo + 1, hi)

\* ds with the buckets lo..hi emptied.
ClearRange(ds, lo, hi) ==
    [i \in 1..Len(ds) |-> IF lo + 1 <= i /\ i <= hi + 1 THEN <<>> ELSE ds[i]]

\* The set of items held in a bucket array, and how many there are.
Items(ds) == UNION {{ds[i][j] : j \in 1..Len(ds[i])} : i \in 1..Len(ds)}
RECURSIVE CountFrom(_, _)
CountFrom(ds, i) == IF i > Len(ds) THEN 0 ELSE Len(ds[i]) + CountFrom(ds, i + 1)
Count(ds) == CountFrom(ds, 1)

\* The distance (bucket index) an item is held at.
DistOf(ds, item) ==
    (CHOOSE i \in 1..Len(ds) : \E j \in 1..Len(ds[i]) : ds[i][j] = item) - 1

\* The distances of the held items, ascending (one entry per item).
RECURSIVE HeldFrom(_, _)
HeldFrom(ds, i) ==
    IF i > Len(ds) THEN <<>>
    ELSE [j \in 1..Len(ds[i]) |-> i - 1] \o HeldFrom(ds, i + 1)
HeldDistances(ds) == HeldFrom(ds, 1)

\* A sequence of numbers sorted ascending.
Sorted(s) == SortSeq(s, LAMBDA a, b : a < b)
NonDecreasing(s) == \A i \in 1..Len(s) - 1 : s[i] <= s[i + 1]
Prefix(s, n) == SubSeq(s, 1, Min(n, Len(s)))

\* ---------------------------------------------------- HammingHeap128
\* A queue value is [distances, best].

\* heap_pop giving up one bucket early (best == 127 for best == 128).
RECURSIVE heap_pop_early(_)
heap_pop_early(q) ==
    IF q.distances[q.best + 1] # <<>>
    THEN [q   |-> [q EXCEPT !.distances[q.best + 1] = VecPop(@)],
          ret |-> <<q.best, q.distances[q.best + 1][Len(q.distances[q.best + 1])]>>]
    ELSE IF q.best >= HeapDistances - 2
    THEN [q |-> q, ret |-> <<>>]
    ELSE heap_pop_early([q EXCEPT !.best = @ + 1])

\* pop: the loop of heap.rs:39-49. The last bucket index is 128 in the source.
RECURSIVE heap_pop(_)
heap_pop(q) ==
    IF q.distances[q.best + 1] # <<>>
    THEN [q   |-> [q EXCEPT !.distances[q.best + 1] = VecPop(@)],
          ret |-> <<q.best, q.distances[q.best + 1][Len(q.distances[q.best + 1])]>>]
    ELSE IF q.best = HeapDistances - 1
    THEN [q |-> q, ret |-> <<>>]
    ELSE heap_pop([q EXCEPT !.best = @ + 1])

\* heap_push without the rewind of best.
heap_push_no_rewind(q, distance, node) ==
    IF distance >= Len(q.distances)
    THEN [q |-> q, outcome |-> "panic"]
    ELSE [q |-> [q EXCEPT !.distances[distance + 1] = Append(@, node)],
          outcome |-> "ok"]

\* heap_push setting best to the pushed distance whatever it is.
heap_push_always_set(q, distance, node) ==
    IF distance >= Len(q.distances)
    THEN [q |-> q, outcome |-> "panic"]
    ELSE [q |-> [distances |-> [q.distances EXCEPT ![distance + 1] = Append(@, node)],
                 best |-> distance],
          outcome |-> "ok"]

\* push: heap.rs:53-58. The index into the array panics past its end, after
\* the comparison with best (which cannot hold for such a distance).
heap_push(q, distance, node) ==
    LET b == IF distance < q.best THEN distance ELSE q.best
    IN  IF distance >= Len(q.distances)
        THEN [q |-> [q EXCEPT !.best = b], outcome |-> "panic"]
        ELSE [q |-> [distances |-> [q.distances EXCEPT ![distance + 1] = Append(@, node)],
                     best |-> b],
              outcome |-> "ok"]

\* clear: heap.rs:30-35. Only the buckets from best on are cleared.
heap_clear(q) ==
    [distances |-> ClearRange(q.distances, q.best, Len(q.distances) - 1),
     best |-> 0]

\* best(): heap.rs:61-66. <<>> for None, <<d>> for Some(d).
RECURSIVE heap_best_from(_, _)
heap_best_from(ds, i) ==
    IF i >= Len(ds) THEN <<>>
    ELSE IF ds[i + 1] # <<>> THEN <<i>>
    ELSE heap_best_from(ds, i + 1)
\* best() forgetting to add best to the position found in the slice.
heap_best_no_offset(q) ==
    LET r == heap_best_from(q.distances, q.best)
    IN  IF r = <<>> THEN r ELSE <<r[1] - q.best>>

heap_best(q) == heap_best_from(q.distances, q.best)

\* iter() and iter_mut(): heap.rs:69-81. The slice distances[best..] is
\* enumerated, so the number paired with an item is the index of its bucket
\* within that slice; i is that index. The pairs are <<item, distance>>.
RECURSIVE heap_iter_from(_, _, _)
heap_iter_from(ds, start, i) ==
    IF start + i >= Len(ds) THEN <<>>
    ELSE [j \in 1..Len(ds[start + i + 1]) |-> <<ds[start + i + 1][j], i>>]
             \o heap_iter_from(ds, start, i + 1)
heap_iter(q) == heap_iter_from(q.distances, q.best, 0)

\* -------------------------------------------------- FixedHammingHeap
\* A heap value is [cap, size, worst, distances].

\* Default::default(), fixed_heap.rs:237-246.
default == [cap |-> 0, size |-> 0, worst |-> 0, distances |-> <<>>]

\* at_cap: fixed_heap.rs:171-173.
at_cap(h) == h.size = h.cap

\* end: fixed_heap.rs:211-217.
end(h) == IF at_cap(h) THEN h.worst ELSE Len(h.distances) - 1

\* The index of the last non-empty bucket among 0..i, or -1 when there is none:
\* iter().rev().position(..) of update_worst, counted from the front.
RECURSIVE rposition(_, _)
rposition(ds, i) ==
    IF i < 0 THEN -1
    ELSE IF ds[i + 1] # <<>> THEN i
    ELSE rposition(ds, i - 1)

\* update_worst one bucket off in the position arithmetic.
update_worst_off_by_one(h) ==
    LET p == rposition(h.distances, h.worst)
    IN  [h EXCEPT !.worst = IF p >= 1 THEN p - 1
                            ELSE IF p = 0 THEN 0
                            ELSE Len(h.distances) - 1]

\* update_worst: fixed_heap.rs:220-228.
update_worst(h) ==
    LET p == rposition(h.distances, h.worst)
    IN  [h EXCEPT !.worst = IF p >= 0 THEN p ELSE Len(h.distances) - 1]

\* remove_worst forgetting the pop.
remove_worst_no_pop(h) == update_worst(h)

\* remove_worst resetting worst to the last distance, as set_len and clear do,
\* instead of scanning down for the next occupied bucket.
remove_worst_reset(h) ==
    [h EXCEPT !.distances[h.worst + 1] = VecPop(@),
              !.worst = Len(h.distances) - 1]

\* remove_worst: fixed_heap.rs:231-234.
remove_worst(h) ==
    update_worst([h EXCEPT !.distances[h.worst + 1] = VecPop(@)])

\* push_at_cap accepting a tie with the worst (<= for <).
push_at_cap_ties(h, distance, item) ==
    IF distance <= h.worst
    THEN IF distance >= Len(h.distances)
         THEN [h |-> h, ret |-> FALSE, outcome |-> "panic"]
         ELSE [h |-> remove_worst([h EXCEPT !.distances[distance + 1] = Append(@, item)]),
               ret |-> TRUE, outcome |-> "ok"]
    ELSE [h |-> h, ret |-> FALSE, outcome |-> "ok"]

\* push_at_cap: fixed_heap.rs:198-208. The index panics past the array's end.
push_at_cap(h, distance, item) ==
    IF distance < h.worst
    THEN IF distance >= Len(h.distances)
         THEN [h |-> h, ret |-> FALSE, outcome |-> "panic"]
         ELSE [h |-> remove_worst([h EXCEPT !.distances[distance + 1] = Append(@, item)]),
               ret |-> TRUE, outcome |-> "ok"]
    ELSE [h |-> h, ret |-> FALSE, outcome |-> "ok"]

\* push forgetting update_worst on the push that fills the heap.
push_no_update(h, distance, item) ==
    IF h.size # h.cap
    THEN IF distance >= Len(h.distances)
         THEN [h |-> h, ret |-> FALSE, outcome |-> "panic"]
         ELSE [h |-> [h EXCEPT !.distances[distance + 1] = Append(@, item),
                               !.size = @ + 1],
               ret |-> TRUE, outcome |-> "ok"]
    ELSE push_at_cap(h, distance, item)

\* push: fixed_heap.rs:132-144.
push(h, distance, item) ==
    IF h.size # h.cap
    THEN IF distance >= Len(h.distances)
         THEN [h |-> h, ret |-> FALSE, outcome |-> "panic"]
         ELSE LET h1 == [h EXCEPT !.distances[distance + 1] = Append(@, item),
                                  !.size = @ + 1]
              IN  [h |-> IF h1.size = h1.cap THEN update_worst(h1) ELSE h1,
                   ret |-> TRUE, outcome |-> "ok"]
    ELSE push_at_cap(h, distance, item)

\* The removal loop emptying the bucket that has enough, instead of taking
\* only `remaining` items off its end.
RECURSIVE drain_whole_bucket(_, _, _, _)
drain_whole_bucket(ds, i, last, remaining) ==
    IF i > last THEN ds
    ELSE IF Len(ds[i + 1]) >= remaining
    THEN [ds EXCEPT ![i + 1] = <<>>]
    ELSE drain_whole_bucket([ds EXCEPT ![i + 1] = <<>>], i + 1, last,
                            remaining - Len(ds[i + 1]))

\* The removal loop of set_len, fixed_heap.rs:74-84: the buckets i..last are
\* visited in ascending index order with `remaining` items still to remove.
RECURSIVE drain(_, _, _, _)
drain(ds, i, last, remaining) ==
    IF i > last THEN ds
    ELSE IF Len(ds[i + 1]) >= remaining
    THEN [ds EXCEPT ![i + 1] = SubSeq(@, 1, Len(@) - remaining)]
    ELSE drain([ds EXCEPT ![i + 1] = <<>>], i + 1, last, remaining - Len(ds[i + 1]))

\* set_len leaving worst where it was after a removal.
set_len_keep_worst(h, len) ==
    IF len = 0
    THEN [h EXCEPT !.distances = ClearRange(h.distances, 0, end(h)),
                   !.size = 0]
    ELSE IF len < h.size
    THEN [h EXCEPT !.distances = drain(h.distances, 0, end(h), h.size - len),
                   !.size = len]
    ELSE h

\* set_len: fixed_heap.rs:62-89.
set_len(h, len) ==
    IF len = 0
    THEN [h EXCEPT !.distances = ClearRange(h.distances, 0, end(h)),
                   !.size = 0,
                   !.worst = Len(h.distances) - 1]
    ELSE IF len < h.size
    THEN [h EXCEPT !.distances = drain(h.distances, 0, end(h), h.size - len),
                   !.worst = Len(h.distances) - 1,
                   !.size = len]
    ELSE h

\* set_capacity forgetting update_worst when the heap is full afterwards.
set_capacity_no_update(h, c) ==
    IF c = 0
    THEN [h |-> h, outcome |-> "panic"]
    ELSE LET h1 == set_len(h, c)
         IN  [h |-> [h1 EXCEPT !.cap = c, !.worst = Len(h1.distances) - 1],
              outcome |-> "ok"]

\* set_capacity: fixed_heap.rs:47-57. assert_ne!(cap, 0) panics first.
set_capacity(h, c) ==
    IF c = 0
    THEN [h |-> h, outcome |-> "panic"]
    ELSE LET h1 == set_len(h, c)
             h2 == [h1 EXCEPT !.cap = c, !.worst = Len(h1.distances) - 1]
         IN  [h |-> IF h2.size = h2.cap THEN update_worst(h2) ELSE h2,
              outcome |-> "ok"]

\* clear leaving worst where it was.
clear_keep_worst(h) ==
    IF Len(h.distances) = 0
    THEN [h |-> h, outcome |-> "panic"]
    ELSE [h |-> [h EXCEPT !.distances = ClearRange(h.distances, 0, end(h)),
                          !.size = 0],
          outcome |-> "ok"]

\* clear: fixed_heap.rs:102-114. The assert panics on a heap with no buckets.
clear(h) ==
    IF Len(h.distances) = 0
    THEN [h |-> h, outcome |-> "panic"]
    ELSE [h |-> [h EXCEPT !.distances = ClearRange(h.distances, 0, end(h)),
                          !.size = 0,
                          !.worst = Len(h.distances) - 1],
          outcome |-> "ok"]

\* set_distances: fixed_heap.rs:122-127. `len() as u32 - 1` underflows for no
\* buckets: a build with overflow checks panics there, after the buckets were
\* replaced; a build without them wraps and goes on.
set_distances(h, n, overflow_checks) ==
    LET h1 == [h EXCEPT !.distances = EmptyBuckets(n)]
    IN  IF n = 0 /\ overflow_checks
        THEN [h |-> h1, outcome |-> "panic"]
        ELSE [h |-> [h1 EXCEPT !.worst = (n - 1) % U32, !.size = 0],
              outcome |-> "ok"]

\* A buffer slot fill_slice did not write keeps what the caller had put there.
Stale == 0

\* Flatten from the far end: the buckets hi down to lo.
RECURSIVE FlattenRev(_, _, _)
FlattenRev(ds, lo, hi) ==
    IF lo > hi THEN <<>> ELSE ds[hi + 1] \o FlattenRev(ds, lo, hi - 1)

\* fill_slice walking the buckets from the worst one down.
fill_slice_rev(h, n) ==
    LET total_fill == Min(n, h.size)
        taken == Prefix(FlattenRev(h.distances, 0, end(h)), total_fill)
    IN  [i \in 1..total_fill |-> IF i <= Len(taken) THEN taken[i] ELSE Stale]

\* fill_slice: fixed_heap.rs:147-161. The first total_fill items of the buckets
\* 0..end() are written; the prefix of length total_fill is returned.
fill_slice(h, n) ==
    LET total_fill == Min(n, h.size)
        taken == Prefix(Flatten(h.distances, 0, end(h)), total_fill)
    IN  [i \in 1..total_fill |-> IF i <= Len(taken) THEN taken[i] ELSE Stale]

\* update_worst takes its unwrap_or branch on h: no bucket in 0..worst holds
\* an item (fixed_heap.rs:222-227).
fallback(h) == rposition(h.distances, h.worst) < 0

\* The heap as push hands it to update_worst: the item is in, size counted
\* (fixed_heap.rs:134-138).
push_before_update(h, distance, item) ==
    [h EXCEPT !.distances[distance + 1] = Append(@, item), !.size = @ + 1]

\* The heap as push_at_cap hands it to remove_worst: the item is in
\* (fixed_heap.rs:202-203).
push_at_cap_before_remove(h, distance, item) ==
    [h EXCEPT !.distances[distance + 1] = Append(@, item)]

\* The heap as remove_worst hands it to update_worst: the worst bucket is
\* popped (fixed_heap.rs:232-233).
remove_worst_before_update(h) ==
    [h EXCEPT !.distances[h.worst + 1] = VecPop(@)]

\* The heap as set_capacity has it where it tests size == cap
\* (fixed_heap.rs:49-54).
set_capacity_before_update(h, c) ==
    [set_len(h, c) EXCEPT !.cap = c, !.worst = Len(h.distances) - 1]

\* iter() and iter_mut(): fixed_heap.rs:176-190. The slice distances[..=end()]
\* is enumerated from bucket 0. The pairs are <<distance, item>>.
RECURSIVE iter_from(_, _, _)
iter_from(ds, i, last) ==
    IF i > last THEN <<>>
    ELSE [j \in 1..Len(ds[i + 1]) |-> <<i, ds[i + 1][j]>>] \o iter_from(ds, i + 1, last)
iter(h) == iter_from(h.distances, 0, end(h))

\* ------------------------------------------------------ state machine
Queue == [distances |-> hdistances, best |-> best]
Heap == [cap |-> cap, size |-> size, worst |-> worst, distances |-> distances]

\* The structure is usable once set_distances gave it buckets (the struct's
\* documentation: "you will need to call set_distances before use") and
\* set_capacity gave it a capacity.
HasBuckets == Len(distances) > 0
Configured == HasBuckets /\ cap > 0

\* What a call leaves for its caller to see.
Call(o, a, out, acc, pr, fl) ==
    /\ op' = o
    /\ arg' = a
    /\ outcome' = out
    /\ accepted' = acc
    /\ popret' = pr
    /\ filled' = fl

\* The items a call removed: those held before it that are not held after it.
Dropped(before, after) == Cardinality(Items(before) \ Items(after))

SetQueue(q) ==
    /\ hdistances' = q.distances
    /\ best' = q.best
    /\ dropped' = Dropped(hdistances, q.distances)

SetHeap(h) ==
    /\ cap' = h.cap
    /\ size' = h.size
    /\ worst' = h.worst
    /\ distances' = h.distances
    /\ dropped' = Dropped(distances, h.distances)

\* HammingHeap128::default() (heap.rs:93-230) and FixedHammingHeap::new().
Init ==
    /\ component \in {"heap", "fixed_heap"}
    /\ hdistances = EmptyBuckets(HeapDistances)
    /\ best = 0
    /\ cap = default.cap
    /\ size = default.size
    /\ worst = default.worst
    /\ distances = default.distances
    /\ op = "new"
    /\ arg = 0
    /\ outcome = "ok"
    /\ accepted = FALSE
    /\ popret = <<>>
    /\ filled = <<>>
    /\ dropped = 0
    /\ count = 0
    /\ pushed = <<>>
    /\ popped = <<>>
    /\ pure = TRUE

\* ---- HammingHeap128
HeapPush ==
    /\ component = "heap"
    /\ \E d \in 0..HeapDistances :
        LET r == heap_push(Queue, d, count + 1)
        IN  /\ r.outcome = "ok" => count < MaxPush
            /\ SetQueue(r.q)
            /\ Call("push", d, r.outcome, FALSE, <<>>, <<>>)
            /\ IF r.outcome = "ok"
               THEN /\ count' = count + 1
                    /\ pure' = (pure /\ popped = <<>>)
                    /\ pushed' = IF pure' THEN Append(pushed, d) ELSE <<>>
                    /\ popped' = popped
               ELSE UNCHANGED histVars
    /\ UNCHANGED <<component, fixedVars>>

HeapPop ==
    /\ component = "heap"
    /\ LET r == heap_pop(Queue)
       IN  /\ SetQueue(r.q)
           /\ Call("pop", 0, "ok", FALSE, r.ret, <<>>)
           /\ popped' = IF r.ret = <<>> THEN popped ELSE Append(popped, r.ret)
    /\ UNCHANGED <<component, fixedVars, count, pushed, pure>>

HeapClear ==
    /\ component = "heap"
    /\ SetQueue(heap_clear(Queue))
    /\ Call("clear", 0, "ok", FALSE, <<>>, <<>>)
    /\ count' = 0
    /\ pushed' = <<>>
    /\ popped' = <<>>
    /\ pure' = TRUE
    /\ UNCHANGED <<component, fixedVars>>

\* best() takes &self.
HeapBest ==
    /\ component = "heap"
    /\ Call("best", 0, "ok", FALSE, heap_best(Queue), <<>>)
    /\ dropped' = 0
    /\ UNCHANGED <<component, heapVars, fixedVars, histVars>>

\* iter() takes &self; iter_mut() hands out &mut T to the items and leaves
\* the buckets as they are.
HeapIter ==
    /\ component = "heap"
    /\ \E name \in {"iter", "iter_mut"} :
        Call(name, 0, "ok", FALSE, <<>>, heap_iter(Queue))
    /\ dropped' = 0
    /\ UNCHANGED <<component, heapVars, fixedVars, histVars>>

\* ---- FixedHammingHeap
SetDistances ==
    /\ component = "fixed_heap"
    /\ \E n \in 0..MaxDistances, overflow_checks \in BOOLEAN :
        /\ n > 0 => overflow_checks
        /\ LET r == set_distances(Heap, n, overflow_checks)
           IN  /\ SetHeap(r.h)
               /\ Call("set_distances", n, r.outcome, FALSE, <<>>, <<>>)
    /\ count' = 0
    /\ pushed' = <<>>
    /\ pure' = TRUE
    /\ UNCHANGED <<component, heapVars, popped>>

SetCapacity ==
    /\ component = "fixed_heap"
    /\ HasBuckets
    /\ \E c \in 0..MaxCap :
        LET r == set_capacity(Heap, c)
        IN  /\ SetHeap(r.h)
            /\ Call("set_capacity", c, r.outcome, FALSE, <<>>, <<>>)
            /\ pure' = IF r.outcome = "ok" THEN count = 0 ELSE pure
    /\ pushed' = IF pure' THEN pushed ELSE <<>>
    /\ UNCHANGED <<component, heapVars, count, popped>>

SetLen ==
    /\ component = "fixed_heap"
    /\ Configured
    /\ \E len \in 0..MaxCap :
        /\ SetHeap(set_len(Heap, len))
        /\ Call("set_len", len, "ok", FALSE, <<>>, <<>>)
    /\ pure' = (pure /\ count = 0)
    /\ pushed' = IF pure' THEN pushed ELSE <<>>
    /\ UNCHANGED <<component, heapVars, count, popped>>

Clear ==
    /\ component = "fixed_heap"
    /\ Configured
    /\ LET r == clear(Heap)
       IN  /\ SetHeap(r.h)
           /\ Call("clear", 0, r.outcome, FALSE, <<>>, <<>>)
    /\ count' = 0
    /\ pushed' = <<>>
    /\ pure' = TRUE
    /\ UNCHANGED <<component, heapVars, popped>>

\* The history a push leaves: a push that returned counts when its distance
\* is one of the structure's distances.
Pushed(r, d) ==
    IF r.outcome = "ok" /\ d < Len(distances)
    THEN /\ count < MaxPush
         /\ count' = count + 1
         /\ pushed' = IF pure THEN Append(pushed, d) ELSE <<>>
    ELSE UNCHANGED <<count, pushed>>

Push ==
    /\ component = "fixed_heap"
    /\ Configured
    /\ \E d \in 0..Len(distances) :
        LET r == push(Heap, d, count + 1)
        IN  /\ Pushed(r, d)
            /\ SetHeap(r.h)
            /\ Call("push", d, r.outcome, r.ret, <<>>, <<>>)
    /\ UNCHANGED <<component, heapVars, popped, pure>>

FillSlice ==
    /\ component = "fixed_heap"
    /\ Configured
    /\ \E n \in 0..MaxBuf :
        Call("fill_slice", n, "ok", FALSE, <<>>, fill_slice(Heap, n))
    /\ dropped' = 0
    /\ UNCHANGED <<component, heapVars, fixedVars, histVars>>

Next ==
    \/ HeapPush
    \/ HeapPop
    \/ HeapClear
    \/ HeapBest
    \/ HeapIter
    \/ SetDistances
    \/ SetCapacity
    \/ SetLen
    \/ Clear
    \/ Push
    \/ FillSlice

Spec == Init /\ [][Next]_vars

\* ---- FixedHammingHeap pushed to before set_capacity
\* new_distances(n), fixed_heap.rs:38-42: default() then set_distances(n);
\* cap is still the 0 of default().
InitNoCap ==
    /\ component = "fixed_heap"
    /\ hdistances = EmptyBuckets(HeapDistances)
    /\ best = 0
    /\ \E n \in 1..MaxDistances :
        LET h == set_distances(default, n, TRUE).h
        IN  /\ cap = h.cap
            /\ size = h.size
            /\ worst = h.worst
            /\ distances = h.distances
            /\ arg = n
    /\ op = "new_distances"
    /\ outcome = "ok"
    /\ accepted = FALSE
    /\ popret = <<>>
    /\ filled = <<>>
    /\ dropped = 0
    /\ count = 0
    /\ pushed = <<>>
    /\ popped = <<>>
    /\ pure = TRUE

\* push() while cap is 0: the same code as Push, fixed_heap.rs:132-144.
PushNoCap ==
    /\ component = "fixed_heap"
    /\ HasBuckets
    /\ cap = 0
    /\ \E d \in 0..Len(distances) :
        LET r == push(Heap, d, count + 1)
        IN  /\ Pushed(r, d)
            /\ SetHeap(r.h)
            /\ Call("push", d, r.outcome, r.ret, <<>>, <<>>)
    /\ UNCHANGED <<component, heapVars, popped, pure>>

NextNoCap ==
    \/ PushNoCap
    \/ SetCapacity
    \/ Push
    \/ FillSlice

SpecNoCap == InitNoCap /\ [][NextNoCap]_vars

\* Every variable has the shape the model gives it.
TypeOK ==
    /\ component \in {"heap", "fixed_heap"}
    /\ best \in 0..HeapDistances - 1
    /\ Len(hdistances) = HeapDistances
    /\ cap \in 0..MaxCap
    /\ size \in 0..MaxCap
    /\ Len(distances) \in 0..MaxDistances
    /\ outcome \in {"ok", "panic"}
    /\ accepted \in BOOLEAN
    /\ dropped \in 0..MaxPush
    /\ count \in 0..MaxPush
    /\ Len(pushed) = (IF pure THEN count ELSE 0)
    /\ pure \in BOOLEAN

\* ------------------------------------------------------------- claims
PoppedDistances == [i \in 1..Len(popped) |-> popped[i][1]]
PoppedItems == {popped[i][2] : i \in 1..Len(popped)}

\* The smallest distance at which ds holds an item (ds holds one).
MinHeld(ds) ==
    CHOOSE d \in 0..Len(ds) - 1 :
        /\ ds[d + 1] # <<>>
        /\ \A e \in 0..d - 1 : ds[e + 1] = <<>>

\* The largest distance at which ds holds an item (ds holds one).
MaxHeld(ds) ==
    CHOOSE d \in 0..Len(ds) - 1 :
        /\ ds[d + 1] # <<>>
        /\ \A e \in d + 1..Len(ds) - 1 : ds[e + 1] = <<>>

\* C1: min-queue, pushes followed by pops only: the popped distances are
\* non-decreasing, never more items are popped than were pushed, and when pop
\* returns None every pushed item has been popped exactly once, at the
\* distance it was pushed at.
C1_DrainSortedComplete ==
    (component = "heap" /\ pure) =>
        /\ NonDecreasing(PoppedDistances)
        /\ Len(popped) <= Len(pushed)
        /\ (op = "pop" /\ popret = <<>>) =>
            /\ Len(popped) = Len(pushed)
            /\ PoppedItems = 1..Len(pushed)
            /\ \A i \in 1..Len(popped) : popped[i][1] = pushed[popped[i][2]]

\* Three pushes, the second nearer than the first, then drained to None.
C1_Witness ==
    /\ component = "heap"
    /\ pure
    /\ op = "pop"
    /\ popret = <<>>
    /\ Len(popped) >= 3
    /\ pushed[1] > pushed[2]

\* C2: min-queue, any interleaving: a pop of an empty queue returns None and
\* leaves it empty; a pop of a non-empty queue returns an item that was held,
\* with the distance it was held at, which is the smallest distance held, and
\* removes exactly that item.
C2_PopReturnsMinimum ==
    [][(component = "heap" /\ op' = "pop") =>
        IF Items(hdistances) = {}
        THEN popret' = <<>> /\ hdistances' = hdistances
        ELSE /\ popret' # <<>>
             /\ popret'[2] \in Items(hdistances)
             /\ popret'[1] = DistOf(hdistances, popret'[2])
             /\ popret'[1] = MinHeld(hdistances)
             /\ Items(hdistances') = Items(hdistances) \ {popret'[2]}
             /\ Count(hdistances') = Count(hdistances) - 1]_vars

\* A pop returned an item nearer than the item the pop before it returned:
\* a push below best came in between.
C2_Witness ==
    /\ component = "heap"
    /\ op = "pop"
    /\ popret # <<>>
    /\ Len(popped) >= 2
    /\ popped[Len(popped)][1] < popped[Len(popped) - 1][1]

\* ---- FixedHammingHeap
NumDistances == Len(distances)
IsFixed == component = "fixed_heap" /\ Configured

\* The distances of the items of a buffer, as the heap holds them.
BufferDistances(ds, buf) == [i \in 1..Len(buf) |-> DistOf(ds, buf[i])]

\* C3: top-k, after the capacity was set on an empty heap and nothing but
\* pushes (distances in range) followed: fill_slice with a buffer of at least
\* cap slots returns min(n, cap) distinct pushed items whose distances are the
\* min(n, cap) smallest pushed, and never more than cap items are held.
C3_KeepsKSmallest ==
    (IsFixed /\ pure) =>
        /\ Count(distances) <= cap
        /\ size <= cap
        /\ \A n \in cap..MaxBuf :
            LET got == fill_slice(Heap, n)
            IN  /\ Len(got) = Min(Len(pushed), cap)
                /\ \A i \in 1..Len(got) : got[i] \in Items(distances)
                /\ \A i, j \in 1..Len(got) : i # j => got[i] # got[j]
                /\ \A i \in 1..Len(got) : DistOf(distances, got[i]) = pushed[got[i]]
                /\ Sorted(BufferDistances(distances, got)) = Prefix(Sorted(pushed), cap)

\* One push more than the capacity, and that push took the place of another.
C3_Witness ==
    /\ IsFixed
    /\ pure
    /\ cap >= 2
    /\ Len(pushed) > cap
    /\ op = "push"
    /\ accepted
    /\ dropped = 1

\* C4: top-k push of distance d (in range) with item x: below capacity it
\* returns true, x is added at d and size grows by one; at capacity it
\* returns true iff d < worst, and then x is added at d, one item of the
\* bucket at the old worst goes and size stays; the returned bool says whether
\* x is held afterwards, every other item stays where it was, and a push that
\* returns false changes nothing of the heap.
C4_PushAcceptsIffKept ==
    [][(IsFixed /\ op' = "push" /\ arg' < NumDistances) =>
        LET x == count + 1
            before == Items(distances)
            after == Items(distances')
        IN  /\ outcome' = "ok"
            /\ accepted' <=> x \in after
            /\ accepted' => DistOf(distances', x) = arg'
            /\ \A y \in after \ {x} :
                y \in before /\ DistOf(distances', y) = DistOf(distances, y)
            /\ size < cap =>
                /\ accepted'
                /\ size' = size + 1
                /\ after = before \cup {x}
            /\ size = cap =>
                /\ accepted' <=> arg' < worst
                /\ accepted' =>
                    /\ size' = size
                    /\ \E v \in before :
                        /\ DistOf(distances, v) = worst
                        /\ after = (before \cup {x}) \ {v}
            /\ ~accepted' => UNCHANGED fixedVars
            /\ cap' = cap
            /\ Count(distances') = size']_vars

\* A full heap turned down a push at exactly its worst distance.
C4_Witness ==
    /\ IsFixed
    /\ op = "push"
    /\ outcome = "ok"
    /\ ~accepted
    /\ size = cap
    /\ arg = worst
    /\ arg < NumDistances - 1

\* C5 as claimed: set_capacity(c) and set_len(c) with 0 < c < size leave
\* size = c and keep the c smallest of the distances held before the call.
C5_TrimRemovesWorst ==
    [][(IsFixed /\ op' \in {"set_capacity", "set_len"} /\ outcome' = "ok"
            /\ 0 < arg' /\ arg' < size) =>
        /\ size' = arg'
        /\ Count(distances') = arg'
        /\ HeldDistances(distances') = Prefix(HeldDistances(distances), arg')]_vars

\* C6: top-k, configured: worst is the last distance while size < cap, and
\* the largest distance held while size = cap.
C6_WorstIsThreshold ==
    IsFixed =>
        /\ size < cap => worst = NumDistances - 1
        /\ size = cap =>
            /\ Items(distances) # {}
            /\ worst = MaxHeld(distances)

\* set_capacity on a heap holding exactly that many items, all of them
\* nearer than the last distance.
C6_Witness ==
    /\ IsFixed
    /\ op = "set_capacity"
    /\ size = cap
    /\ worst < NumDistances - 1

\* C7 as claimed: a push with a distance that is none of the structure's
\* panics and leaves the structure as it was.
C7_OutOfRangePushPanics ==
    [][(/\ op' = "push"
        /\ \/ component = "heap" /\ arg' >= HeapDistances
           \/ IsFixed /\ arg' >= NumDistances) =>
        /\ outcome' = "panic"
        /\ UNCHANGED <<heapVars, fixedVars>>]_vars

\* C8 as claimed: set_capacity(0) panics and changes nothing; set_distances(0)
\* panics.
C8_ConfigurationErrorsRejected ==
    [][/\ (op' = "set_capacity" /\ arg' = 0) =>
            outcome' = "panic" /\ UNCHANGED fixedVars
       /\ (op' = "set_distances" /\ arg' = 0) => outcome' = "panic"]_vars

\* C9: clear gives the freshly configured empty structure. Min-queue: every
\* bucket empty and best 0, so pop and best() return None. Top-k: every bucket
\* empty, size 0, worst the last distance, cap as before, so fill_slice
\* returns nothing. Clearing again changes nothing.
C9_ClearGivesFreshState ==
    [][(op' = "clear") =>
        /\ component = "heap" =>
            /\ hdistances' = EmptyBuckets(HeapDistances)
            /\ best' = 0
            /\ heap_pop(Queue').ret = <<>>
            /\ heap_best(Queue') = <<>>
            /\ heap_clear(Queue') = Queue'
        /\ component = "fixed_heap" =>
            /\ outcome' = "ok"
            /\ distances' = EmptyBuckets(NumDistances)
            /\ size' = 0
            /\ worst' = NumDistances - 1
            /\ cap' = cap
            /\ \A n \in 0..MaxBuf : fill_slice(Heap', n) = <<>>
            /\ clear(Heap').h = Heap']_vars

\* clear emptied a full top-k heap of two or more items.
C9_Witness ==
    /\ IsFixed
    /\ op = "clear"
    /\ dropped = cap
    /\ cap >= 2

\* C10: fill_slice with a buffer of n slots returns min(n, size) distinct
\* held items in non-decreasing distance, none of them farther than a held
\* item left out, and changes nothing of the heap.
C10_FillSliceBestFirst ==
    [][(IsFixed /\ op' = "fill_slice") =>
        LET ds == BufferDistances(distances, filled')
        IN  /\ Len(filled') = Min(arg', size)
            /\ \A i \in 1..Len(filled') : filled'[i] \in Items(distances)
            /\ \A i, j \in 1..Len(filled') : i # j => filled'[i] # filled'[j]
            /\ NonDecreasing(ds)
            /\ \A y \in Items(distances) :
                (\A i \in 1..Len(filled') : filled'[i] # y) =>
                    \A i \in 1..Len(ds) : ds[i] <= DistOf(distances, y)
            /\ UNCHANGED fixedVars]_vars

\* A one-slot buffer filled from a heap holding two items at different
\* distances.
C10_Witness ==
    /\ IsFixed
    /\ op = "fill_slice"
    /\ arg = 1
    /\ Len(filled) = 1
    /\ size >= 2
    /\ \E y \in Items(distances) : DistOf(distances, y) > DistOf(distances, filled[1])

\* ---- HammingHeap128, continued

\* C11: min-queue best(): it returns None when nothing is held and otherwise
\* the smallest distance held, which is the distance the next pop returns,
\* and it changes neither best nor the buckets.
C11_BestIsPureMinimum ==
    [][(component = "heap" /\ op' = "best") =>
        /\ UNCHANGED heapVars
        /\ IF Items(hdistances) = {}
           THEN popret' = <<>> /\ heap_pop(Queue).ret = <<>>
           ELSE /\ popret' = <<MinHeld(hdistances)>>
                /\ heap_pop(Queue).ret # <<>>
                /\ heap_pop(Queue).ret[1] = popret'[1]]_vars

\* best() answered from a queue whose cursor pops had moved above 0, with a
\* distance beyond the cursor.
C11_Witness ==
    /\ component = "heap"
    /\ op = "best"
    /\ popret # <<>>
    /\ best >= 1
    /\ popret[1] > best

\* C12 as claimed: min-queue iter() and iter_mut() yield every held item
\* exactly once, each with the distance it is held at, in non-decreasing
\* distance, and remove nothing.
C12_IterYieldsHeldWithDistance ==
    [][(component = "heap" /\ op' \in {"iter", "iter_mut"}) =>
        /\ UNCHANGED heapVars
        /\ Len(filled') = Count(hdistances)
        /\ {filled'[i][1] : i \in 1..Len(filled')} = Items(hdistances)
        /\ \A i \in 1..Len(filled') :
            /\ filled'[i][1] \in Items(hdistances)
            /\ filled'[i][2] = DistOf(hdistances, filled'[i][1])
        /\ NonDecreasing([i \in 1..Len(filled') |-> filled'[i][2]])]_vars

\* ---- FixedHammingHeap, continued

\* C13: top-k set_len(len): with len >= size it changes nothing of the heap;
\* with len < size it leaves size = len items, below cap, and worst at the
\* last distance. From then on, as in every state below capacity, a push of
\* any distance in range is accepted, and the push that fills the heap sets
\* worst to the largest distance held.
C13_SetLenReopensHeap ==
    [][/\ (IsFixed /\ op' = "set_len") =>
            IF arg' >= size
            THEN UNCHANGED fixedVars
            ELSE /\ size' = arg'
                 /\ Count(distances') = arg'
                 /\ size' < cap'
                 /\ cap' = cap
                 /\ worst' = NumDistances - 1
                 /\ Items(distances') \subseteq Items(distances)
       /\ (IsFixed /\ op' = "push" /\ arg' < NumDistances /\ size < cap) =>
            /\ accepted'
            /\ size' = size + 1
            /\ size' = cap =>
                worst' = MaxHeld(distances')]_vars

\* set_len took items out of a heap and left some, all of them nearer than
\* the last distance, which worst now names.
C13_Witness ==
    /\ IsFixed
    /\ op = "set_len"
    /\ dropped >= 1
    /\ size = arg
    /\ arg >= 1
    /\ worst = NumDistances - 1
    /\ MaxHeld(distances) < worst

\* C14: min-queue, every reachable state: best is a bucket index and every
\* bucket below best is empty.
C14_BestIsLowerWatermark ==
    component = "heap" =>
        /\ best \in 0..HeapDistances - 1
        /\ \A d \in 0..best - 1 : hdistances[d + 1] = <<>>

\* The cursor stands above 0 on a non-empty bucket after a pop.
C14_Witness ==
    /\ component = "heap"
    /\ op = "pop"
    /\ best >= 1
    /\ hdistances[best + 1] # <<>>

\* C15: top-k, configured: worst is a bucket index and every bucket above
\* worst is empty, so the buckets 0..end() that fill_slice, iter, clear and
\* set_len visit hold every retained item.
C15_WorstIsUpperWatermark ==
    IsFixed =>
        /\ worst \in 0..NumDistances - 1
        /\ \A d \in worst + 1..NumDistances - 1 : distances[d + 1] = <<>>
        /\ Flatten(distances, 0, end(Heap)) = Flatten(distances, 0, NumDistances - 1)
        /\ {iter(Heap)[i][2] : i \in 1..Len(iter(Heap))} = Items(distances)
        /\ \A i \in 1..Len(iter(Heap)) :
            iter(Heap)[i][1] = DistOf(distances, iter(Heap)[i][2])
        /\ Items(ClearRange(distances, 0, end(Heap))) = {}

\* fill_slice read a full heap through a worst below the last distance and
\* returned everything held.
C15_Witness ==
    /\ IsFixed
    /\ op = "fill_slice"
    /\ size = cap
    /\ cap >= 2
    /\ worst < NumDistances - 1
    /\ Len(filled) = size

\* C16: top-k, configured: size is the number of items held, it lies in
\* 0..cap, and at_cap() holds exactly when cap items are held.
C16_SizeCountsItems ==
    IsFixed =>
        /\ size = Count(distances)
        /\ size = Cardinality(Items(distances))
        /\ size \in 0..cap
        /\ at_cap(Heap) <=> Count(distances) = cap

\* set_capacity lowered the capacity of a heap and removed items to fit.
C16_Witness ==
    /\ IsFixed
    /\ op = "set_capacity"
    /\ dropped >= 1
    /\ size = cap

\* ---- cursor monotonicity

\* C17 as claimed: min-queue best never decreases across a push or a pop.
C17_BestNeverDecreases ==
    [][(component = "heap" /\ op' \in {"push", "pop"}) => best' >= best]_vars

\* C17 amended: best starts at 0; a pop never decreases it; a push leaves it
\* unchanged when its distance is not below best, and sets it to the pushed
\* distance when it is.
C17_BestRewindsOnlyOnNearerPush ==
    /\ component = "heap" => best = 0
    /\ [][/\ (component = "heap" /\ op' = "pop") => best' >= best
          /\ (component = "heap" /\ op' = "push") =>
                best' = Min(best, arg')]_vars

\* A push below the cursor, after a pop had returned an item farther away,
\* left the cursor at the pushed distance.
C17_Witness ==
    /\ component = "heap"
    /\ op = "push"
    /\ outcome = "ok"
    /\ popped # <<>>
    /\ popped[Len(popped)][1] > arg
    /\ best = arg

\* C18: top-k, a push on a full heap that leaves it full: worst does not
\* increase, whether the push is accepted or not; it stays when the push is
\* rejected.
C18_WorstNeverIncreasesWhileFull ==
    [][(IsFixed /\ op' = "push" /\ size = cap /\ size' = cap') =>
        /\ worst' <= worst
        /\ ~accepted' => worst' = worst]_vars

\* An accepted push on a full heap emptied the old worst bucket and became
\* the worst item itself.
C18_Witness ==
    /\ IsFixed
    /\ op = "push"
    /\ accepted
    /\ dropped = 1
    /\ worst = arg
    /\ cap >= 2

\* C19: top-k, configured, every call that can follow: when update_worst runs
\* (on the push that fills the heap, on an accepted push on a full heap after
\* the eviction, in set_capacity when size = cap) a bucket in 0..worst holds
\* an item, and when remove_worst pops the bucket at worst, that bucket holds
\* one.
C19_FallbackUnreachable ==
    IsFixed =>
        /\ \A d \in 0..NumDistances - 1 :
            /\ size # cap =>
                LET h1 == push_before_update(Heap, d, count + 1)
                IN  h1.size = h1.cap => ~fallback(h1)
            /\ (size = cap /\ d < worst) =>
                LET h1 == push_at_cap_before_remove(Heap, d, count + 1)
                IN  /\ h1.distances[h1.worst + 1] # <<>>
                    /\ ~fallback(remove_worst_before_update(h1))
        /\ \A c \in 1..MaxCap :
            LET h2 == set_capacity_before_update(Heap, c)
            IN  h2.size = h2.cap => ~fallback(h2)

\* An accepted push on a full heap evicted an item and the scan found the
\* new worst above the pushed distance.
C19_Witness ==
    /\ IsFixed
    /\ op = "push"
    /\ accepted
    /\ dropped = 1
    /\ size = cap
    /\ cap >= 2
    /\ worst > arg

\* C20: top-k built by new_distances(D) and pushed to while cap is still 0:
\* every push returns false and retains nothing (size stays 0, every bucket
\* stays empty, worst stays D-1), and a set_capacity(cap > 0) that follows
\* starts from a structure holding nothing.
C20_PushWithoutCapacityRetainsNothing ==
    [][(component = "fixed_heap" /\ HasBuckets /\ cap = 0) =>
        /\ (op' = "push" /\ outcome' = "ok") =>
            /\ ~accepted'
            /\ Items(distances') = {}
            /\ size' = 0
            /\ worst' = NumDistances - 1
        /\ (op' = "set_capacity" /\ outcome' = "ok") =>
            /\ Items(distances') = {}
            /\ size' = 0]_vars

====
